---- MODULE Spec2Model ----
(***************************************************************************)
(* A model of the Streamlit dashboard script src/streamlit.py.             *)
(*                                                                         *)
(* One render pass of the script is a run of the actions from Interact     *)
(* (the user touches a widget, Streamlit runs the script top to bottom)    *)
(* to pc = "done".  Every blocking HTTP call is the boundary of an action. *)
(* Text is a sequence of one-character strings, so that lower(), replace() *)
(* split() and the regular-expression search of pandas are computed and    *)
(* not assumed.                                                            *)
(***************************************************************************)
EXTENDS Integers, Sequences, FiniteSets, TLC

VARIABLES
    page,       \* the navigation selection of this pass (st.sidebar.radio)
    inp,        \* the widget values of this pass
    session,    \* st.session_state
    backend,    \* what the REST backend answers, per resource, during this pass
    pc,         \* the position of the script
    loc,        \* the script's local variables
    trace,      \* this pass: the HTTP requests issued and the elements rendered, in order
    crashed,    \* this pass ended in an unhandled exception
    rerun,      \* st.rerun() was called: the script runs again without a user action
    rnd,        \* this pass drew a random value
    prev,       \* the pass before, when this pass repeats it with the same inputs
    arg,        \* the argument of the pure function under check
    res,        \* its result
    trend       \* the synthetic series under construction (Analytics)

vars == <<page, inp, session, backend, pc, loc, trace, crashed, rerun, rnd, prev,
          arg, res, trend>>

(***************************************************************************)
(* Text                                                                    *)
(***************************************************************************)

\* Upper-case letters and, at the same index, their lower-case letters.
UpperLetters == <<"A","B","C","D","E","F","G","H","I","J","K","L","M",
                  "N","O","P","Q","R","S","T","U","V","W","X","Y","Z">>
LowerLetters == <<"a","b","c","d","e","f","g","h","i","j","k","l","m",
                  "n","o","p","q","r","s","t","u","v","w","x","y","z">>

\* str.lower() of one character.
LowerChar(c) ==
    IF \E i \in 1..Len(UpperLetters) : UpperLetters[i] = c
    THEN LowerLetters[CHOOSE i \in 1..Len(UpperLetters) : UpperLetters[i] = c]
    ELSE c

\* str.upper() of one character.
UpperChar(c) ==
    IF \E i \in 1..Len(LowerLetters) : LowerLetters[i] = c
    THEN UpperLetters[CHOOSE i \in 1..Len(LowerLetters) : LowerLetters[i] = c]
    ELSE c

\* str.lower()
Lower(s) == [i \in 1..Len(s) |-> LowerChar(s[i])]

\* str.replace(c, ""): every occurrence of the character c removed.
RECURSIVE RemoveChar(_, _)
RemoveChar(s, c) ==
    IF s = <<>> THEN <<>>
    ELSE IF Head(s) = c THEN RemoveChar(Tail(s), c)
         ELSE <<Head(s)>> \o RemoveChar(Tail(s), c)

\* s starts with p at offset k (0-based).
MatchAt(s, p, k) ==
    /\ k + Len(p) <= Len(s)
    /\ \A i \in 1..Len(p) : s[k + i] = p[i]

\* p in s
Contains(s, p) == \E k \in 0..Len(s) : MatchAt(s, p, k)

\* The offset (0-based) of the first occurrence of p in s, -1 when there is none.
FirstIndex(s, p) ==
    IF Contains(s, p)
    THEN CHOOSE k \in 0..Len(s) :
            /\ MatchAt(s, p, k)
            /\ \A j \in 0..(k - 1) : ~MatchAt(s, p, j)
    ELSE -1

\* s.split(sep)[1]: the text between the first and the second occurrence of sep;
\* the empty sequence of results (IndexError) when sep does not occur.
SplitSecond(s, sep) ==
    IF ~Contains(s, sep) THEN <<>>
    ELSE LET t == SubSeq(s, FirstIndex(s, sep) + Len(sep) + 1, Len(s))
         IN  IF Contains(t, sep) THEN <<SubSeq(t, 1, FirstIndex(t, sep))>> ELSE <<t>>

\* s.strip(c): the leading and the trailing occurrences of the character c removed.
RECURSIVE LStrip(_, _)
LStrip(s, c) == IF s # <<>> /\ Head(s) = c THEN LStrip(Tail(s), c) ELSE s
RECURSIVE RStrip(_, _)
RStrip(s, c) ==
    IF s # <<>> /\ s[Len(s)] = c THEN RStrip(SubSeq(s, 1, Len(s) - 1), c) ELSE s
Strip(s, c) == RStrip(LStrip(s, c), c)

Digits == <<"0","1","2","3","4","5","6","7","8","9">>
IsDigit(c) == \E d \in 1..Len(Digits) : Digits[d] = c
DigitValue(c) == (CHOOSE d \in 1..Len(Digits) : Digits[d] = c) - 1

\* str(n) of an integer.
RECURSIVE NatToStr(_)
NatToStr(n) ==
    IF n < 10 THEN <<Digits[n + 1]>>
    ELSE NatToStr(n \div 10) \o <<Digits[(n % 10) + 1]>>
IntToStr(n) == IF n < 0 THEN <<"-">> \o NatToStr(-n) ELSE NatToStr(n)

RECURSIVE DigitsToNat(_)
DigitsToNat(s) ==
    IF s = <<>> THEN 0
    ELSE 10 * DigitsToNat(SubSeq(s, 1, Len(s) - 1)) + DigitValue(s[Len(s)])

\* int(s): blanks around, a sign, decimal digits; <<n>>, or <<>> for ValueError.
ParseInt(s) ==
    LET t == Strip(s, " ")
        signed == t # <<>> /\ t[1] \in {"+", "-"}
        d == IF signed THEN Tail(t) ELSE t
    IN  IF d = <<>> \/ \E i \in 1..Len(d) : ~IsDigit(d[i]) THEN <<>>
        ELSE IF signed /\ t[1] = "-" THEN <<0 - DigitsToNat(d)>>
        ELSE <<DigitsToNat(d)>>

(***************************************************************************)
(* format_status                                                           *)
(***************************************************************************)

Delivered  == <<"d","e","l","i","v","e","r","e","d">>
InTransit  == <<"i","n","t","r","a","n","s","i","t">>
InHTransit == <<"i","n","-","t","r","a","n","s","i","t">>
Processing == <<"p","r","o","c","e","s","s","i","n","g">>
Delayed    == <<"d","e","l","a","y","e","d">>

\* f'<span class="{cls}">{status}</span>': the opening tag, the text, the closing tag.
Span(cls, status) == <<"<span class=" \o cls \o ">">> \o status \o <<"</span>">>

\* The mutant of StatusLower: the case is not folded.
StatusLowerNoFold(status) == RemoveChar(status, " ")

\* status.lower().replace(" ", "")
StatusLower(status) == RemoveChar(Lower(status), " ")

format_status(status) ==
    LET status_lower == StatusLower(status) IN
    IF status_lower = Delivered THEN Span("status-delivered", status)
    ELSE IF status_lower = InTransit \/ status_lower = InHTransit
         THEN Span("status-intransit", status)
    ELSE IF status_lower = Processing THEN Span("status-processing", status)
    ELSE IF status_lower = Delayed THEN Span("status-delayed", status)
    ELSE status

(***************************************************************************)
(* Values and the HTTP helpers                                             *)
(***************************************************************************)

\* Python's None, and a value that is not None.
None == [none |-> TRUE, v |-> <<>>]
Some(v) == [none |-> FALSE, v |-> v]

\* The mutant of TruthyList: the list is tested against None only.
TruthyListNotNone(x) == ~x.none

\* "if x:" of a value that is None or a JSON list: None and [] are false.
TruthyList(x) == ~x.none /\ x.v # <<>>

\* "if x:" of a value that is None or a JSON object: None and {} are false.
TruthyDict(x) == ~x.none /\ ~x.v.empty

\* f"{API_BASE_URL}/{endpoint}": the path written with its id, when it has one.
Endpoint(path, id) == [path |-> path, id |-> id]
NoId == <<>>

\* The query parameters of a GET; a key that is absent is the empty sequence.
Params(limit, status, customer_id) ==
    [limit |-> limit, status |-> status, customer_id |-> customer_id]
NoParams == Params(<<>>, <<>>, <<>>)
Limit100 == Params(<<100>>, <<>>, <<>>)
NoBody == [empty |-> TRUE]

\* What requests raises as requests.exceptions.RequestException: raise_for_status()
\* on a non-2xx response, a refused connection, the 10 second timeout.
FailKinds == <<"http_error", "connection_error", "timeout">>

Fail(kind) == [ok |-> FALSE, err |-> kind, body |-> NoBody]
Ok(body) == [ok |-> TRUE, err |-> "", body |-> body]

\* The elements of a pass's trace.
RequestEvent(method, endpoint, params, body, resp) ==
    [kind |-> "request", method |-> method, endpoint |-> endpoint,
     params |-> params, body |-> body, ok |-> resp.ok]
Note(kind, text, endpoint, detail) ==
    [kind |-> kind, text |-> text, endpoint |-> endpoint, detail |-> detail]
Plain(kind, text) == Note(kind, text, Endpoint("", NoId), "")
Section(name, rows) == [kind |-> "section", name |-> name, rows |-> rows]

\* One request, its result, and the st.error of the except branch.
Call(method, text, endpoint, params, body, resp) ==
    [events |-> <<RequestEvent(method, endpoint, params, body, resp)>>
                \o (IF resp.ok THEN <<>>
                    ELSE <<Note("error", text, endpoint, resp.err)>>),
     value  |-> IF resp.ok THEN Some(resp.body) ELSE None]

\* The mutant of fetch_data: the except branch returns None without st.error.
fetch_data_silent(endpoint, params, resp) ==
    [events |-> <<RequestEvent("GET", endpoint, params, NoBody, resp)>>,
     value  |-> IF resp.ok THEN Some(resp.body) ELSE None]

\* The mutant of fetch_data: a failed GET is tried once more.
fetch_data_retry(endpoint, params, resp) ==
    [events |-> <<RequestEvent("GET", endpoint, params, NoBody, resp)>>
                \o (IF resp.ok THEN <<>>
                    ELSE <<RequestEvent("GET", endpoint, params, NoBody, resp),
                           Note("error", "Error fetching data from", endpoint, resp.err)>>),
     value  |-> IF resp.ok THEN Some(resp.body) ELSE None]

fetch_data(endpoint, params, resp) ==
    Call("GET", "Error fetching data from", endpoint, params, NoBody, resp)

update_data(endpoint, data, resp) ==
    Call("PUT", "Error updating data at", endpoint, NoParams, data, resp)

create_data(endpoint, data, resp) ==
    Call("POST", "Error creating data at", endpoint, NoParams, data, resp)

(***************************************************************************)
(* The backend: what it may answer                                         *)
(***************************************************************************)

JohnDoe == <<"J","o","h","n"," ","D","o","e">>
Jane    == <<"J","a","n","e">>

\* A body of GET customers.
CustomerList ==
    << [CustomerID |-> 1, Name |-> JohnDoe, Type |-> "Business"],
       [CustomerID |-> 2, Name |-> Jane,    Type |-> "Individual"] >>

\* A body of GET parcels.
ParcelList ==
    << [ParcelID |-> 1, CustomerID |-> 1],
       [ParcelID |-> 2, CustomerID |-> 2] >>

\* A body of GET shipments: one shipment in a city of the table, one elsewhere.
ShipmentList ==
    << [ShipmentID |-> 1, ParcelID |-> 1, CustomerID |-> 1,
        Status |-> <<"I","n"," ","T","r","a","n","s","i","t">>,
        CurrentLocation |-> "Chicago"],
       [ShipmentID |-> 2, ParcelID |-> 1, CustomerID |-> 2,
        Status |-> <<"L","o","s","t">>,
        CurrentLocation |-> "Nowhereville"] >>

\* A JSON object: {} or one with keys.
EmptyObject == [empty |-> TRUE]
SomeObject  == [empty |-> FALSE]

\* Bodies of GET dashboard/summary.
SummaryBodies ==
    << [empty |-> TRUE,  status_breakdown |-> <<>>, recent_shipments |-> <<>>],
       [empty |-> FALSE, status_breakdown |-> <<>>, recent_shipments |-> <<>>],
       [empty |-> FALSE, status_breakdown |-> <<"Delivered">>,
        recent_shipments |-> ShipmentList] >>

\* Bodies of GET analytics/kpi: a key that is absent is the empty sequence.
\* The customer rating is in tenths.
KpiBodies ==
    << [empty |-> TRUE,  avg_efficiency |-> <<>>, avg_customer_rating |-> <<>>,
        on_time_percentage |-> <<>>],
       [empty |-> FALSE, avg_efficiency |-> <<>>, avg_customer_rating |-> <<>>,
        on_time_percentage |-> <<>>],
       [empty |-> FALSE, avg_efficiency |-> <<98>>, avg_customer_rating |-> <<49>>,
        on_time_percentage |-> <<71>>] >>

\* Bodies of GET analytics and of GET dashboard/customer-insights.
ChartBodies ==
    << [empty |-> TRUE,  has_chart |-> FALSE],
       [empty |-> FALSE, has_chart |-> FALSE],
       [empty |-> FALSE, has_chart |-> TRUE] >>

ListBodies(list) == << <<>>, list >>
ObjectBodies == << EmptyObject, SomeObject >>

Resources ==
    {"dashboard/summary", "customers", "customers/{id}", "POST customers",
     "parcels", "parcels?customer_id", "parcels/{id}", "shipments",
     "PUT shipments/{id}/status", "analytics/kpi", "analytics",
     "dashboard/customer-insights"}

\* The 2xx bodies a resource may answer with.
Bodies(r) ==
    CASE r = "dashboard/summary" -> SummaryBodies
      [] r = "customers" -> ListBodies(CustomerList)
      [] r \in {"parcels", "parcels?customer_id"} -> ListBodies(ParcelList)
      [] r = "shipments" -> ListBodies(ShipmentList)
      [] r = "analytics/kpi" -> KpiBodies
      [] r \in {"analytics", "dashboard/customer-insights"} -> ChartBodies
      [] OTHER -> ObjectBodies

\* Every answer of a resource: a failure of each kind, or 2xx with one of its bodies.
Responses(r) ==
    [i \in 1..Len(FailKinds) |-> Fail(FailKinds[i])]
    \o [i \in 1..Len(Bodies(r)) |-> Ok(Bodies(r)[i])]

\* The backend has not been asked for this resource in this pass.
Unobserved == [ok |-> FALSE, err |-> "unobserved", body |-> NoBody]

\* The answers the backend may give now: any, or the one it gave in the pass
\* this pass repeats.
Answers(r) ==
    IF backend[r].err = "unobserved" THEN Responses(r) ELSE <<backend[r]>>

Observe(r, resp) == backend' = [backend EXCEPT ![r] = resp]

(***************************************************************************)
(* The widgets and the user                                                *)
(***************************************************************************)

\* The mutant of Pages: the radio also offers the two views that have a branch.
PagesWithHidden ==
    <<"Dashboard", "Shipments", "Customers", "Parcels", "Analytics",
      "Personnel", "Network Visualization">>

\* The options of the navigation radio.
Pages == <<"Dashboard", "Shipments", "Customers", "Parcels", "Analytics">>

\* The options of the Shipments status filter and of the update form.
status_options == <<"All", "Processing", "In Transit", "Delivered", "Delayed">>
new_status_options == <<"Processing", "In Transit", "Delivered", "Delayed">>

\* st.selectbox: the option the user picked, the first one when the pick is
\* not among the options.
SelectBox(options, idx) ==
    IF idx + 1 <= Len(options) THEN options[idx + 1] ELSE options[1]

\* The largest index the user picks in a dropdown filled from the backend.
MaxPick == 2

\* The indexes of the status filter the user picks: "All" and one status.
StatusPicks == {0, 3}

\* The texts the user types in "Filter by Name".
FilterNames == { <<>>, <<"j","o">>, <<"J",".","h">>, <<"z">> }

\* The values of the Add Customer form.
NewCustomer(name, email) ==
    [CustomerID |-> 1, Name |-> name, Email |-> email, Phone |-> "",
     Address |-> "", Type |-> "Individual"]

DefaultInp ==
    [filter_name |-> <<>>, filter_type |-> "All", clicked |-> <<>>,
     add_submit |-> FALSE, new_customer |-> NewCustomer("", ""),
     sel_customer |-> 0, sel_status |-> 0, sel_parcel |-> 0,
     update_form |-> <<>>, new_status |-> 0]

\* The widget values a pass of page p may run with: the filters as the user left
\* them and at most one button or form submitted, since Streamlit runs the script
\* once per user action.
Inputs(p) ==
    CASE p = "Customers" ->
           LET filters == {[DefaultInp EXCEPT !.filter_name = f, !.filter_type = t] :
                              f \in FilterNames,
                              t \in {"All", "Business", "Individual"}}
           IN  filters
               \cup {[i EXCEPT !.clicked = <<c>>] : i \in filters, c \in 1..2}
               \cup {[DefaultInp EXCEPT !.add_submit = TRUE,
                                        !.new_customer = NewCustomer(n, e)] :
                        n \in {"", "Ann"}, e \in {"", "a@b.c"}}
      [] p = "Parcels" ->
           {[DefaultInp EXCEPT !.sel_customer = c, !.sel_parcel = q] :
               c \in 0..MaxPick, q \in 0..MaxPick}
      [] p = "Shipments" ->
           LET filters == {[DefaultInp EXCEPT !.sel_status = s, !.sel_customer = c] :
                              s \in StatusPicks, c \in 0..MaxPick}
           IN  filters
               \cup {[i EXCEPT !.update_form = <<u>>, !.new_status = n] :
                        i \in filters, u \in 1..2,
                        n \in 0..(Len(new_status_options) - 1)}
      [] OTHER -> {DefaultInp}

\* The mutant of NoEvent: a button stays pressed in the pass st.rerun() starts.
NoEventKeep(i) == i

\* A button or a form_submit_button is True only in the pass its click started.
NoEvent(i) ==
    [i EXCEPT !.clicked = <<>>, !.add_submit = FALSE, !.update_form = <<>>]

Submitted(i) == i.clicked # <<>> \/ i.add_submit \/ i.update_form # <<>>

(***************************************************************************)
(* The script's state                                                      *)
(***************************************************************************)

Absent == [set |-> FALSE, v |-> <<>>]
Held(v) == [set |-> TRUE, v |-> v]

\* st.session_state of a new session: no key.
SessionInit == [customer_filter |-> Absent, status_filter |-> Absent]

\* The local variables before the script assigns them.
LocInit ==
    [customers |-> None, parcels |-> None, shipments |-> None,
     selected_customer |-> Absent, params |-> NoParams,
     filtered |-> <<>>, rest |-> <<>>, row |-> <<>>,
     selected_parcel_id |-> <<>>, map_data |-> <<>>,
     kpi_data |-> None, analytics_data |-> None, customer_insights |-> None,
     dashboard_data |-> None, customer_details |-> None, parcel_detail |-> None,
     result |-> None, session0 |-> SessionInit]

BackendInit == [r \in Resources |-> Unobserved]

NoPrev == [set |-> FALSE]
ThisPass ==
    [set |-> TRUE, page |-> page, inp |-> inp, session0 |-> loc.session0,
     session |-> session, trace |-> trace, crashed |-> crashed, rerun |-> rerun,
     rnd |-> rnd]

\* No point of no series yet.
NoTrend == [n |-> 0, last |-> <<>>, lens |-> <<>>]

Init ==
    /\ page = Pages[1]
    /\ inp = DefaultInp
    /\ session = SessionInit
    /\ backend = BackendInit
    /\ pc = "idle"
    /\ loc = LocInit
    /\ trace = <<>>
    /\ crashed = FALSE
    /\ rerun = FALSE
    /\ rnd = FALSE
    /\ prev = NoPrev
    /\ arg = <<>>
    /\ res = <<>>
    /\ trend = NoTrend

\* The script starts at its first line.
StartPass ==
    /\ pc' = "top"
    /\ loc' = LocInit
    /\ trace' = <<>>
    /\ crashed' = FALSE
    /\ rerun' = FALSE
    /\ rnd' = FALSE
    /\ trend' = NoTrend
    /\ UNCHANGED <<session, arg, res>>

\* The user navigates, changes a filter, clicks a button or submits a form.
Interact ==
    /\ pc = "idle"
    /\ \E p \in 1..Len(Pages) :
          /\ page' = Pages[p]
          /\ inp' \in Inputs(Pages[p])
    /\ backend' = BackendInit
    /\ prev' = NoPrev
    /\ StartPass

\* The pass is over and the page waits for the user, who may then change any
\* widget: nothing of the pass but the session state is read again.
Wait ==
    /\ pc = "done"
    /\ ~rerun
    /\ pc' = "idle"
    /\ page' = Pages[1]
    /\ inp' = DefaultInp
    /\ backend' = BackendInit
    /\ loc' = LocInit
    /\ trace' = <<>>
    /\ crashed' = FALSE
    /\ rnd' = FALSE
    /\ prev' = NoPrev
    /\ trend' = NoTrend
    /\ UNCHANGED <<session, rerun, arg, res>>

\* The user does the same again and the backend is as it was, after a pass
\* that drew no random value.
Replay ==
    /\ pc = "done"
    /\ ~rerun
    /\ ~rnd
    /\ ~prev.set
    /\ prev' = ThisPass
    /\ UNCHANGED <<page, inp, backend>>
    /\ StartPass

\* st.rerun(): the script is run again, no button pressed.
Rerun ==
    /\ pc = "done"
    /\ rerun
    /\ inp' = NoEvent(inp)
    /\ backend' = BackendInit
    /\ prev' = NoPrev
    /\ UNCHANGED page
    /\ StartPass

\* The mutant of InitKey: the key is reset in every pass.
InitKeyAlways(k) == None.v

\* if k not in st.session_state: st.session_state[k] = None
InitKey(k) == IF session[k].set THEN session[k].v ELSE None.v

\* Lines 116-134: the sidebar, the session state, and the branch on page.
Prologue ==
    /\ pc = "top"
    /\ session' = [customer_filter |-> Held(InitKey("customer_filter")),
                   status_filter   |-> Held(InitKey("status_filter"))]
    /\ loc' = [loc EXCEPT !.session0 = session]
    /\ pc' = CASE page = "Dashboard" -> "dashboard"
               [] page = "Customers" -> "customers"
               [] page = "Parcels" -> "parcels"
               [] page = "Shipments" -> "shipments"
               [] page = "Personnel" -> "personnel"
               [] page = "Analytics" -> "analytics_kpi"
               [] page = "Network Visualization" -> "network"
               [] OTHER -> "done"
    /\ UNCHANGED <<page, inp, backend, trace, crashed, rerun, rnd, prev,
                   arg, res, trend>>

(***************************************************************************)
(* Dashboard                                                               *)
(***************************************************************************)

\* One card per row, with its status styled.
StatusCards(name, rows) ==
    [i \in 1..Len(rows) |->
        Section(name, <<[id |-> rows[i].ShipmentID,
                         status_html |-> format_status(rows[i].Status),
                         location |-> rows[i].CurrentLocation]>>)]

DashboardPage ==
    /\ pc = "dashboard"
    /\ \E a \in 1..Len(Answers("dashboard/summary")) :
          LET resp == Answers("dashboard/summary")[a]
              f == fetch_data(Endpoint("dashboard/summary", NoId), NoParams, resp)
              dashboard_data == f.value
          IN  /\ Observe("dashboard/summary", resp)
              /\ loc' = [loc EXCEPT !.dashboard_data = dashboard_data]
              /\ trace' = trace \o f.events \o
                   (IF TruthyDict(dashboard_data)
                    THEN <<Section("metrics", <<>>)>>
                         \o (IF dashboard_data.v.status_breakdown # <<>>
                             THEN <<Section("status_pie", <<>>)>>
                             ELSE <<Plain("info", "No status data available")>>)
                         \o <<Section("efficiency_gauge", <<>>)>>
                         \o (IF dashboard_data.v.recent_shipments # <<>>
                             THEN StatusCards("recent_shipment",
                                              dashboard_data.v.recent_shipments)
                             ELSE <<Plain("info", "No recent shipments to display")>>)
                    ELSE <<>>)
    /\ pc' = "done"
    /\ UNCHANGED <<page, inp, session, crashed, rerun, rnd, prev, arg, res, trend>>

(***************************************************************************)
(* Customers                                                               *)
(***************************************************************************)

\* re.search(pat, s) of a pattern made of literal characters and ".", which
\* matches any character; with re.IGNORECASE when ignorecase.
RegexSearch(s, pat, ignorecase) ==
    \E k \in 0..Len(s) :
        /\ k + Len(pat) <= Len(s)
        /\ \A i \in 1..Len(pat) :
              \/ pat[i] = "."
              \/ IF ignorecase THEN LowerChar(pat[i]) = LowerChar(s[k + i])
                               ELSE pat[i] = s[k + i]

\* Series.str.contains(pat, case=False): regex=True is the default of pandas.
StrContains(name, pat) == RegexSearch(name, pat, TRUE)

\* list(set(df['Type']))
CustomerTypes(customers) == {customers[i].Type : i \in 1..Len(customers)}

\* Lines 281-285: the rows the Customers list displays.
FilterCustomers(customers, filter_name, filter_type) ==
    LET by_name(c) == filter_name = <<>> \/ StrContains(c.Name, filter_name)
        by_type(c) == filter_type = "All" \/ c.Type = filter_type
        keep(c) == by_name(c) /\ by_type(c)
    IN  SelectSeq(customers, keep)

CustomerCards(rows) ==
    [i \in 1..Len(rows) |-> Section("customer_card", <<rows[i]>>)]

\* The index of the row whose "View Details" button was clicked, 0 when none is.
ClickedIndex(rows, clicked) ==
    IF \E i \in 1..Len(rows) : clicked = <<rows[i].CustomerID>>
    THEN CHOOSE i \in 1..Len(rows) : clicked = <<rows[i].CustomerID>>
    ELSE 0

\* Lines 269-313: the list is fetched and filtered, and the cards are drawn down
\* to the row whose button was clicked.
CustomersList ==
    /\ pc = "customers"
    /\ \E a \in 1..Len(Answers("customers")) :
          LET resp == Answers("customers")[a]
              f == fetch_data(Endpoint("customers", NoId), Limit100, resp)
              customers == f.value
              filter_type == IF inp.filter_type \in CustomerTypes(customers.v)
                             THEN inp.filter_type ELSE "All"
              filtered == FilterCustomers(customers.v, inp.filter_name, filter_type)
              k == ClickedIndex(filtered, inp.clicked)
          IN  /\ Observe("customers", resp)
              /\ IF ~TruthyList(customers)
                 THEN /\ trace' = trace \o f.events
                                  \o <<Plain("error", "Failed to load customer data")>>
                      /\ loc' = [loc EXCEPT !.customers = customers]
                      /\ pc' = "customers_tab2"
                 ELSE IF filtered = <<>>
                 THEN /\ trace' = trace \o f.events
                           \o <<Plain("info", "No customers found with the selected filters")>>
                      /\ loc' = [loc EXCEPT !.customers = customers]
                      /\ pc' = "customers_tab2"
                 ELSE IF k = 0
                 THEN /\ trace' = trace \o f.events \o CustomerCards(filtered)
                      /\ loc' = [loc EXCEPT !.customers = customers,
                                            !.filtered = filtered]
                      /\ pc' = "customers_tab2"
                 ELSE /\ trace' = trace \o f.events
                                  \o CustomerCards(SubSeq(filtered, 1, k))
                      /\ loc' = [loc EXCEPT !.customers = customers,
                                            !.filtered = filtered,
                                            !.row = <<filtered[k]>>,
                                            !.rest = SubSeq(filtered, k + 1, Len(filtered))]
                      /\ pc' = "customers_details"
    /\ UNCHANGED <<page, inp, session, crashed, rerun, rnd, prev, arg, res, trend>>

\* The mutant of DetailsLoaded: the button stores the filter whatever the fetch gave.
DetailsLoadedAlways(customer_details) == TRUE

\* Line 307: if customer_details:
DetailsLoaded(customer_details) == TruthyDict(customer_details)

\* Lines 305-309: the clicked "View Details" button.
CustomersViewDetails ==
    /\ pc = "customers_details"
    /\ \E a \in 1..Len(Answers("customers/{id}")) :
          LET resp == Answers("customers/{id}")[a]
              row == loc.row[1]
              f == fetch_data(Endpoint("customers/{id}", IntToStr(row.CustomerID)),
                              NoParams, resp)
              customer_details == f.value
          IN  /\ Observe("customers/{id}", resp)
              /\ loc' = [loc EXCEPT !.customer_details = customer_details]
              /\ IF DetailsLoaded(customer_details)
                 THEN /\ session' = [session EXCEPT
                                       !.customer_filter = Held(<<row.CustomerID>>)]
                      /\ trace' = trace \o f.events
                      /\ rerun' = TRUE
                      /\ pc' = "done"
                 ELSE /\ trace' = trace \o f.events \o CustomerCards(loc.rest)
                      /\ pc' = "customers_tab2"
                      /\ UNCHANGED <<session, rerun>>
    /\ UNCHANGED <<page, inp, crashed, rnd, prev, arg, res, trend>>

\* The mutant of RequiredFilled: the name is the only required field.
RequiredFilledNameOnly(new_customer) == new_customer.Name # ""

\* Line 335: if new_customer['Name'] and new_customer['Email']:
RequiredFilled(new_customer) == new_customer.Name # "" /\ new_customer.Email # ""

\* Lines 315-340: the Add Customer tab.
CustomersAddForm ==
    /\ pc = "customers_tab2"
    /\ LET new_customer == inp.new_customer
           form == <<Section("new_customer_form", <<>>)>>
       IN  IF inp.add_submit /\ RequiredFilled(new_customer)
           THEN \E a \in 1..Len(Answers("POST customers")) :
                   LET resp == Answers("POST customers")[a]
                       c == create_data(Endpoint("customers", NoId), new_customer, resp)
                       result == c.value
                   IN  /\ Observe("POST customers", resp)
                       /\ loc' = [loc EXCEPT !.result = result]
                       /\ trace' = trace \o form \o c.events
                            \o (IF TruthyDict(result)
                                THEN <<Plain("success", "Customer added successfully!")>>
                                ELSE <<>>)
           ELSE /\ trace' = trace \o form
                     \o (IF inp.add_submit
                         THEN <<Plain("warning", "Please fill in all required fields")>>
                         ELSE <<>>)
                /\ UNCHANGED <<backend, loc>>
    /\ pc' = "done"
    /\ UNCHANGED <<page, inp, session, crashed, rerun, rnd, prev, arg, res, trend>>

(***************************************************************************)
(* The customer dropdown of Parcels and Shipments                          *)
(***************************************************************************)

All == <<"A","l","l">>
IdOpen == <<"I","D",":"," ">>

\* f"{c['Name']} (ID: {c['CustomerID']})"
CustomerLabel(c) == c.Name \o <<" ", "(">> \o IdOpen \o IntToStr(c.CustomerID) \o <<")">>

\* ["All"] + [label of c for c in customers]
customer_options(customers) ==
    <<All>> \o [i \in 1..Len(customers) |-> CustomerLabel(customers[i])]

\* int(selected_customer.split("ID: ")[1].strip(")")): <<id>>, or <<>> when it raises.
ParseCustomerId(selected_customer) ==
    LET part == SplitSecond(selected_customer, IdOpen)
    IN  IF part = <<>> THEN <<>> ELSE ParseInt(Strip(part[1], ")"))

(***************************************************************************)
(* Parcels                                                                 *)
(***************************************************************************)

\* Line 347: the unfiltered list is fetched first.
ParcelsFetch ==
    /\ pc = "parcels"
    /\ \E a \in 1..Len(Answers("parcels")) :
          LET resp == Answers("parcels")[a]
              f == fetch_data(Endpoint("parcels", NoId), Limit100, resp)
          IN  /\ Observe("parcels", resp)
              /\ trace' = trace \o f.events
              /\ loc' = [loc EXCEPT !.parcels = f.value]
    /\ pc' = "parcels_customers"
    /\ UNCHANGED <<page, inp, session, crashed, rerun, rnd, prev, arg, res, trend>>

\* Lines 350-356: the customer dropdown and the customer id parsed from its label.
ParcelsCustomerFilter ==
    /\ pc = "parcels_customers"
    /\ \E a \in 1..Len(Answers("customers")) :
          LET resp == Answers("customers")[a]
              f == fetch_data(Endpoint("customers", NoId), Limit100, resp)
              customers == f.value
              options == customer_options(customers.v)
              selected_customer == SelectBox(options, inp.sel_customer)
              customer_id == ParseCustomerId(selected_customer)
          IN  /\ Observe("customers", resp)
              /\ IF ~TruthyList(customers)
                 THEN /\ trace' = trace \o f.events
                      /\ loc' = [loc EXCEPT !.customers = customers]
                      /\ pc' = "parcels_list"
                      /\ UNCHANGED crashed
                 ELSE IF selected_customer = All
                 THEN /\ trace' = trace \o f.events
                                  \o <<Section("customer_select", options)>>
                      /\ loc' = [loc EXCEPT !.customers = customers,
                                            !.selected_customer = Held(selected_customer)]
                      /\ pc' = "parcels_list"
                      /\ UNCHANGED crashed
                 ELSE IF customer_id = <<>>
                 THEN /\ trace' = trace \o f.events
                                  \o <<Section("customer_select", options),
                                       Plain("exception", "ValueError")>>
                      /\ loc' = [loc EXCEPT !.customers = customers,
                                            !.selected_customer = Held(selected_customer)]
                      /\ crashed' = TRUE
                      /\ pc' = "done"
                 ELSE /\ trace' = trace \o f.events
                                  \o <<Section("customer_select", options)>>
                      /\ loc' = [loc EXCEPT !.customers = customers,
                                            !.selected_customer = Held(selected_customer),
                                            !.params = Params(<<100>>, <<>>, customer_id)]
                      /\ pc' = "parcels_filtered"
                      /\ UNCHANGED crashed
    /\ UNCHANGED <<page, inp, session, rerun, rnd, prev, arg, res, trend>>

\* The mutant of ParcelsFetchFiltered: a failed second fetch keeps the first list.
ParcelsFetchFilteredKeep ==
    /\ pc = "parcels_filtered"
    /\ \E a \in 1..Len(Answers("parcels?customer_id")) :
          LET resp == Answers("parcels?customer_id")[a]
              f == fetch_data(Endpoint("parcels", NoId), loc.params, resp)
          IN  /\ Observe("parcels?customer_id", resp)
              /\ trace' = trace \o f.events
              /\ loc' = [loc EXCEPT !.parcels = IF f.value.none THEN @ ELSE f.value]
    /\ pc' = "parcels_list"
    /\ UNCHANGED <<page, inp, session, crashed, rerun, rnd, prev, arg, res, trend>>

\* Line 357: the list of the selected customer replaces the unfiltered one.
ParcelsFetchFiltered ==
    /\ pc = "parcels_filtered"
    /\ \E a \in 1..Len(Answers("parcels?customer_id")) :
          LET resp == Answers("parcels?customer_id")[a]
              f == fetch_data(Endpoint("parcels", NoId), loc.params, resp)
          IN  /\ Observe("parcels?customer_id", resp)
              /\ trace' = trace \o f.events
              /\ loc' = [loc EXCEPT !.parcels = f.value]
    /\ pc' = "parcels_list"
    /\ UNCHANGED <<page, inp, session, crashed, rerun, rnd, prev, arg, res, trend>>

\* ["None"] + df['ParcelID'].astype(str).tolist()
parcel_options(parcels) ==
    << <<"N","o","n","e">> >> \o [i \in 1..Len(parcels) |-> IntToStr(parcels[i].ParcelID)]

\* Lines 359-383 and 424-425: the table and the parcel picked for details.
ParcelsTable ==
    /\ pc = "parcels_list"
    /\ LET parcels == loc.parcels
           selected_parcel_id == SelectBox(parcel_options(parcels.v), inp.sel_parcel)
       IN  IF ~TruthyList(parcels)
           THEN /\ trace' = trace \o <<Plain("error", "Failed to load parcel data")>>
                /\ pc' = "done"
                /\ UNCHANGED loc
           ELSE /\ trace' = trace \o <<Section("parcels_table", parcels.v)>>
                /\ loc' = [loc EXCEPT !.selected_parcel_id = selected_parcel_id]
                /\ pc' = IF selected_parcel_id # <<"N","o","n","e">>
                         THEN "parcels_detail" ELSE "done"
    /\ UNCHANGED <<page, inp, session, backend, crashed, rerun, rnd, prev, arg, res, trend>>

\* Lines 384-396: the details of the picked parcel.
ParcelsDetail ==
    /\ pc = "parcels_detail"
    /\ \E a \in 1..Len(Answers("parcels/{id}")) :
          LET resp == Answers("parcels/{id}")[a]
              f == fetch_data(Endpoint("parcels/{id}", loc.selected_parcel_id),
                              NoParams, resp)
              parcel_detail == f.value
          IN  /\ Observe("parcels/{id}", resp)
              /\ loc' = [loc EXCEPT !.parcel_detail = parcel_detail]
              /\ IF TruthyDict(parcel_detail)
                 THEN /\ trace' = trace \o f.events
                                  \o <<Section("parcel_details", <<parcel_detail.v>>)>>
                      /\ pc' = "parcels_shipments"
                 ELSE /\ trace' = trace \o f.events
                      /\ pc' = "done"
    /\ UNCHANGED <<page, inp, session, crashed, rerun, rnd, prev, arg, res, trend>>

\* [s for s in shipments if s['ParcelID'] == int(selected_parcel_id)]
parcel_shipments(shipments, selected_parcel_id) ==
    LET mine(sh) == <<sh.ParcelID>> = ParseInt(selected_parcel_id)
    IN  SelectSeq(shipments, mine)

\* Lines 399-423: the shipments of the picked parcel.
ParcelsShipments ==
    /\ pc = "parcels_shipments"
    /\ \E a \in 1..Len(Answers("shipments")) :
          LET resp == Answers("shipments")[a]
              f == fetch_data(Endpoint("shipments", NoId), Limit100, resp)
              shipments == f.value
              mine == parcel_shipments(shipments.v, loc.selected_parcel_id)
          IN  /\ Observe("shipments", resp)
              /\ loc' = [loc EXCEPT !.shipments = shipments]
              /\ trace' = trace \o f.events \o
                   (IF ~TruthyList(shipments) THEN <<>>
                    ELSE IF mine # <<>>
                    THEN <<Plain("markdown", "### Associated Shipments")>>
                         \o StatusCards("parcel_shipment", mine)
                    ELSE <<Plain("info", "No shipments found for this parcel")>>)
    /\ pc' = "done"
    /\ UNCHANGED <<page, inp, session, crashed, rerun, rnd, prev, arg, res, trend>>

(***************************************************************************)
(* Shipments                                                               *)
(***************************************************************************)

\* Lines 464-485: the city table; latitude and longitude in 1/10000 degree.
locations ==
    << [city |-> "New York",     lat |-> 407128, lon |-> -740060],
       [city |-> "Los Angeles",  lat |-> 340522, lon |-> -1182437],
       [city |-> "Chicago",      lat |-> 418781, lon |-> -876298],
       [city |-> "Houston",      lat |-> 297604, lon |-> -953698],
       [city |-> "Phoenix",      lat |-> 334484, lon |-> -1120740],
       [city |-> "Philadelphia", lat |-> 399526, lon |-> -751652],
       [city |-> "San Antonio",  lat |-> 294241, lon |-> -984936],
       [city |-> "San Diego",    lat |-> 327157, lon |-> -1171611],
       [city |-> "Dallas",       lat |-> 327767, lon |-> -967970],
       [city |-> "San Jose",     lat |-> 373382, lon |-> -1218863],
       [city |-> "Austin",       lat |-> 302672, lon |-> -977431],
       [city |-> "Jacksonville", lat |-> 303322, lon |-> -816557],
       [city |-> "San Francisco", lat |-> 377749, lon |-> -1224194],
       [city |-> "Columbus",     lat |-> 399612, lon |-> -829988],
       [city |-> "Indianapolis", lat |-> 397684, lon |-> -861581],
       [city |-> "Seattle",      lat |-> 476062, lon |-> -1223321],
       [city |-> "Denver",       lat |-> 397392, lon |-> -1049903],
       [city |-> "Washington",   lat |-> 389072, lon |-> -770369],
       [city |-> "Boston",       lat |-> 423601, lon |-> -710589],
       [city |-> "Nashville",    lat |-> 361627, lon |-> -867816] >>

\* location in locations
InLocations(location) == \E c \in 1..Len(locations) : locations[c].city = location

\* locations[location]
Coordinates(location) ==
    locations[CHOOSE c \in 1..Len(locations) : locations[c].city = location]

\* The rows whose location is not in the table: each draws random.choice.
UnknownRows(rows) == {i \in 1..Len(rows) : ~InLocations(rows[i].CurrentLocation)}

\* The mutant of Placement: a location that is not in the table is not placed.
PlacementNoFallback(location, pick) ==
    IF InLocations(location) THEN Coordinates(location)
    ELSE [city |-> "", lat |-> 0, lon |-> 0]

\* Lines 492-498: the entry of the table a row is plotted at; pick is the index
\* random.choice draws.
Placement(location, pick) ==
    IF InLocations(location) THEN Coordinates(location) ELSE locations[pick]

\* Lines 489-507: map_data, one row per shipment.
MapData(rows, picks) ==
    [i \in 1..Len(rows) |->
        LET location == rows[i].CurrentLocation
            at == Placement(location, IF i \in DOMAIN picks THEN picks[i] ELSE 1)
        IN  [ShipmentID |-> rows[i].ShipmentID, Status |-> rows[i].Status,
             Location |-> location, lat |-> at.lat, lon |-> at.lon]]

\* The mutant of StatusParam: the status is not sent.
StatusParamNever(selected_status) == <<>>

\* Lines 448-449: params["status"], set when a status other than "All" is selected.
StatusParam(selected_status) ==
    IF selected_status # "All" THEN <<selected_status>> ELSE <<>>

\* Lines 440-453: the customer dropdown and the query parameters.  The name
\* selected_customer is bound only inside "if customers:"; line 451 reads it.
ShipmentsFilters ==
    /\ pc = "shipments"
    /\ \E a \in 1..Len(Answers("customers")) :
          LET resp == Answers("customers")[a]
              f == fetch_data(Endpoint("customers", NoId), Limit100, resp)
              customers == f.value
              options == customer_options(customers.v)
              selected_status == SelectBox(status_options, inp.sel_status)
              selected_customer ==
                  IF TruthyList(customers) THEN Held(SelectBox(options, inp.sel_customer))
                                           ELSE loc.selected_customer
              status == StatusParam(selected_status)
              customer_id == ParseCustomerId(selected_customer.v)
              drawn == f.events \o (IF TruthyList(customers)
                                    THEN <<Section("customer_select", options)>>
                                    ELSE <<>>)
          IN  /\ Observe("customers", resp)
              /\ IF ~selected_customer.set
                 THEN /\ trace' = trace \o drawn \o <<Plain("exception", "NameError")>>
                      /\ loc' = [loc EXCEPT !.customers = customers]
                      /\ crashed' = TRUE
                      /\ pc' = "done"
                 ELSE IF selected_customer.v = All
                 THEN /\ trace' = trace \o drawn
                      /\ loc' = [loc EXCEPT !.customers = customers,
                                            !.selected_customer = selected_customer,
                                            !.params = Params(<<100>>, status, <<>>)]
                      /\ pc' = "shipments_fetch"
                      /\ UNCHANGED crashed
                 ELSE IF customer_id = <<>>
                 THEN /\ trace' = trace \o drawn \o <<Plain("exception", "ValueError")>>
                      /\ loc' = [loc EXCEPT !.customers = customers,
                                            !.selected_customer = selected_customer]
                      /\ crashed' = TRUE
                      /\ pc' = "done"
                 ELSE /\ trace' = trace \o drawn
                      /\ loc' = [loc EXCEPT !.customers = customers,
                                            !.selected_customer = selected_customer,
                                            !.params = Params(<<100>>, status, customer_id)]
                      /\ pc' = "shipments_fetch"
                      /\ UNCHANGED crashed
    /\ UNCHANGED <<page, inp, session, rerun, rnd, prev, arg, res, trend>>

\* Lines 455-457 and 578-579: the list is fetched with the parameters.
ShipmentsFetch ==
    /\ pc = "shipments_fetch"
    /\ \E a \in 1..Len(Answers("shipments")) :
          LET resp == Answers("shipments")[a]
              f == fetch_data(Endpoint("shipments", NoId), loc.params, resp)
              shipments == f.value
          IN  /\ Observe("shipments", resp)
              /\ loc' = [loc EXCEPT !.shipments = shipments]
              /\ IF TruthyList(shipments)
                 THEN /\ trace' = trace \o f.events
                      /\ pc' = "shipments_map"
                 ELSE /\ trace' = trace \o f.events
                                  \o <<Plain("error", "Failed to load shipment data")>>
                      /\ pc' = "done"
    /\ UNCHANGED <<page, inp, session, crashed, rerun, rnd, prev, arg, res, trend>>

\* Lines 460-536: the map.
ShipmentsMap ==
    /\ pc = "shipments_map"
    /\ \E picks \in [UnknownRows(loc.shipments.v) -> 1..Len(locations)] :
          LET map_data == MapData(loc.shipments.v, picks)
          IN  /\ loc' = [loc EXCEPT !.map_data = map_data]
              /\ trace' = trace \o <<Section("map", map_data)>>
    /\ rnd' = (rnd \/ UnknownRows(loc.shipments.v) # {})
    /\ pc' = "shipments_list"
    /\ UNCHANGED <<page, inp, session, backend, crashed, rerun, prev, arg, res, trend>>

\* The index of the row whose "Update Status" form was submitted, 0 when none is.
SubmittedIndex(rows, update_form) ==
    IF \E i \in 1..Len(rows) : update_form = <<rows[i].ShipmentID>>
    THEN CHOOSE i \in 1..Len(rows) : update_form = <<rows[i].ShipmentID>>
    ELSE 0

\* Line 575: if result:
Updated(result) == TruthyDict(result)

\* Lines 538-577: the cards and the update forms, down to the submitted form.
ShipmentsListing ==
    /\ pc = "shipments_list"
    /\ LET rows == loc.shipments.v
           k == SubmittedIndex(rows, inp.update_form)
           new_status == SelectBox(new_status_options, inp.new_status)
       IN  IF k = 0
           THEN /\ trace' = trace \o StatusCards("shipment_card", rows)
                /\ UNCHANGED <<backend, rerun, loc>>
           ELSE \E a \in 1..Len(Answers("PUT shipments/{id}/status")) :
                   LET resp == Answers("PUT shipments/{id}/status")[a]
                       u == update_data(Endpoint("shipments/{id}/status",
                                                 IntToStr(rows[k].ShipmentID)),
                                        [empty |-> FALSE, Status |-> new_status], resp)
                       result == u.value
                   IN  /\ Observe("PUT shipments/{id}/status", resp)
                       /\ loc' = [loc EXCEPT !.result = result]
                       /\ IF Updated(result)
                          THEN /\ trace' = trace
                                     \o StatusCards("shipment_card", SubSeq(rows, 1, k))
                                     \o u.events
                                     \o <<Note("success", "Updated status to",
                                               Endpoint("", NoId), new_status)>>
                               /\ rerun' = TRUE
                          ELSE /\ trace' = trace
                                     \o StatusCards("shipment_card", SubSeq(rows, 1, k))
                                     \o u.events
                                     \o StatusCards("shipment_card",
                                                    SubSeq(rows, k + 1, Len(rows)))
                               /\ UNCHANGED rerun
    /\ pc' = "done"
    /\ UNCHANGED <<page, inp, session, crashed, rnd, prev, arg, res, trend>>

(***************************************************************************)
(* Analytics                                                               *)
(***************************************************************************)

\* range(30): the points of each synthetic series.
NumPoints == 30

\* The largest distance np.random.normal moves a point, in the unit of the series.
NoiseMax == 3

\* Lines 729-738: per series, the key read from kpi_data, the default of .get,
\* and the bounds of max(min(.., hi), lo).  The customer rating is in tenths.
TrendSeries ==
    << [name |-> "Efficiency", key |-> "avg_efficiency",
        default |-> 75, lo |-> 50, hi |-> 100],
       [name |-> "Customer Rating", key |-> "avg_customer_rating",
        default |-> 40, lo |-> 10, hi |-> 50],
       [name |-> "On-Time Percentage", key |-> "on_time_percentage",
        default |-> 85, lo |-> 70, hi |-> 100] >>

Min(a, b) == IF a < b THEN a ELSE b
Max(a, b) == IF a > b THEN a ELSE b

\* Line 726: one date per i in range(30, 0, -1), as the number of days before today.
dates == [k \in 1..NumPoints |-> NumPoints - (k - 1)]

\* kpi_data.get(key, default)
KpiGet(kpi_data, key, default) ==
    IF kpi_data[key] = <<>> THEN default ELSE kpi_data[key][1]

\* The mutant of TrendValue: the lower bound is not applied.
TrendValueNoFloor(base, noise, lo, hi) == Min(base + noise, hi)

\* max(min(base + np.random.normal(..), hi), lo)
TrendValue(base, noise, lo, hi) == Max(Min(base + noise, hi), lo)

\* Lines 679-718 and 810-811: the three fetches, one after the other, then the
\* guard on the three results and the KPI cards.
AnalyticsFetchKpi ==
    /\ pc = "analytics_kpi"
    /\ \E a \in 1..Len(Answers("analytics/kpi")) :
          LET resp == Answers("analytics/kpi")[a]
              f == fetch_data(Endpoint("analytics/kpi", NoId), NoParams, resp)
          IN  /\ Observe("analytics/kpi", resp)
              /\ trace' = trace \o f.events
              /\ loc' = [loc EXCEPT !.kpi_data = f.value]
    /\ pc' = "analytics_data"
    /\ UNCHANGED <<page, inp, session, crashed, rerun, rnd, prev, arg, res, trend>>

\* The mutant of AnalyticsFetchData: after a failed GET analytics/kpi the other
\* two requests are not issued.
AnalyticsFetchDataLazy ==
    /\ pc = "analytics_data"
    /\ IF loc.kpi_data.none
       THEN /\ trace' = trace \o <<Plain("error", "Failed to load analytics data")>>
            /\ pc' = "done"
            /\ UNCHANGED <<backend, loc>>
       ELSE /\ \E a \in 1..Len(Answers("analytics")) :
                  LET resp == Answers("analytics")[a]
                      f == fetch_data(Endpoint("analytics", NoId), Limit100, resp)
                  IN  /\ Observe("analytics", resp)
                      /\ trace' = trace \o f.events
                      /\ loc' = [loc EXCEPT !.analytics_data = f.value]
            /\ pc' = "analytics_insights"
    /\ UNCHANGED <<page, inp, session, crashed, rerun, rnd, prev, arg, res, trend>>

AnalyticsFetchData ==
    /\ pc = "analytics_data"
    /\ \E a \in 1..Len(Answers("analytics")) :
          LET resp == Answers("analytics")[a]
              f == fetch_data(Endpoint("analytics", NoId), Limit100, resp)
          IN  /\ Observe("analytics", resp)
              /\ trace' = trace \o f.events
              /\ loc' = [loc EXCEPT !.analytics_data = f.value]
    /\ pc' = "analytics_insights"
    /\ UNCHANGED <<page, inp, session, crashed, rerun, rnd, prev, arg, res, trend>>

AnalyticsFetchInsights ==
    /\ pc = "analytics_insights"
    /\ \E a \in 1..Len(Answers("dashboard/customer-insights")) :
          LET resp == Answers("dashboard/customer-insights")[a]
              f == fetch_data(Endpoint("dashboard/customer-insights", NoId),
                              NoParams, resp)
              customer_insights == f.value
          IN  /\ Observe("dashboard/customer-insights", resp)
              /\ loc' = [loc EXCEPT !.customer_insights = customer_insights]
              /\ IF /\ TruthyDict(loc.kpi_data)
                    /\ TruthyDict(loc.analytics_data)
                    /\ TruthyDict(customer_insights)
                 THEN /\ trace' = trace \o f.events \o <<Section("kpi_cards", <<>>)>>
                      /\ pc' = "analytics_trend"
                 ELSE /\ trace' = trace \o f.events
                                  \o <<Plain("error", "Failed to load analytics data")>>
                      /\ pc' = "done"
    /\ UNCHANGED <<page, inp, session, crashed, rerun, rnd, prev, arg, res, trend>>

\* Lines 729-738: one more point of the series under construction; the series
\* after it starts when it has its NumPoints points.
TrendPoint ==
    /\ pc = "analytics_trend"
    /\ \E noise \in (0 - NoiseMax)..NoiseMax :
          LET k == Len(trend.lens) + 1
              series == TrendSeries[k]
              base == KpiGet(loc.kpi_data.v, series.key, series.default)
              point == TrendValue(base, noise, series.lo, series.hi)
          IN  IF trend.n + 1 < NumPoints
              THEN /\ trend' = [trend EXCEPT !.n = trend.n + 1,
                                              !.last = <<[series |-> k, value |-> point]>>]
                   /\ pc' = pc
              ELSE /\ trend' = [n |-> 0, last |-> <<[series |-> k, value |-> point]>>,
                                lens |-> Append(trend.lens, trend.n + 1)]
                   /\ pc' = IF k = Len(TrendSeries) THEN "analytics_charts" ELSE pc
    /\ rnd' = TRUE
    /\ UNCHANGED <<page, inp, session, backend, loc, trace, crashed, rerun, prev,
                   arg, res>>

\* Lines 741-809: the DataFrame of the series (pandas raises ValueError when the
\* columns differ in length), the three line charts, the insight charts.
AnalyticsCharts ==
    /\ pc = "analytics_charts"
    /\ IF \E k \in 1..Len(trend.lens) : trend.lens[k] # Len(dates)
       THEN /\ trace' = trace \o <<Plain("exception", "ValueError")>>
            /\ crashed' = TRUE
       ELSE /\ trace' = trace
                 \o [k \in 1..Len(TrendSeries) |->
                        Section("trend_line", <<TrendSeries[k].name>>)]
                 \o (IF loc.customer_insights.v.has_chart
                     THEN <<Section("customer_distribution", <<>>)>> ELSE <<>>)
                 \o (IF loc.analytics_data.v.has_chart
                     THEN <<Section("shipping_methods", <<>>)>> ELSE <<>>)
            /\ UNCHANGED crashed
    /\ pc' = "done"
    /\ UNCHANGED <<page, inp, session, backend, loc, rerun, rnd, prev, arg, res, trend>>

Next ==
    \/ Interact
    \/ Wait
    \/ Replay
    \/ Rerun
    \/ Prologue
    \/ DashboardPage
    \/ CustomersList
    \/ CustomersViewDetails
    \/ CustomersAddForm
    \/ ParcelsFetch
    \/ ParcelsCustomerFilter
    \/ ParcelsFetchFiltered
    \/ ParcelsTable
    \/ ParcelsDetail
    \/ ParcelsShipments
    \/ ShipmentsFilters
    \/ ShipmentsFetch
    \/ ShipmentsMap
    \/ ShipmentsListing
    \/ AnalyticsFetchKpi
    \/ AnalyticsFetchData
    \/ AnalyticsFetchInsights
    \/ TrendPoint
    \/ AnalyticsCharts

Spec == Init /\ [][Next]_vars

(***************************************************************************)
(* format_status on its own: the status texts are the words below in lower, *)
(* upper or title case, with up to MaxSeps separators put in anywhere.      *)
(***************************************************************************)

Lost == <<"l","o","s","t">>
StatusWords == {Delivered, InTransit, Processing, Delayed, Lost}
Separators == {" ", "-", "_"}

\* The separators put into a status text.
MaxSeps == 2

Upper(s) == [i \in 1..Len(s) |-> UpperChar(s[i])]
Title(s) == [i \in 1..Len(s) |-> IF i = 1 THEN UpperChar(s[i]) ELSE s[i]]

\* s with the character c put in after its first k characters.
InsertAt(s, k, c) == SubSeq(s, 1, k) \o <<c>> \o SubSeq(s, k + 1, Len(s))

InitStatus ==
    /\ page = Pages[1]
    /\ inp = DefaultInp
    /\ session = SessionInit
    /\ backend = BackendInit
    /\ pc = "format_status"
    /\ loc = LocInit
    /\ trace = <<>>
    /\ crashed = FALSE
    /\ rerun = FALSE
    /\ rnd = FALSE
    /\ prev = NoPrev
    /\ \E w \in StatusWords :
          arg \in {[status |-> t, seps |-> 0] : t \in {w, Upper(w), Title(w)}}
    /\ res = <<>>
    /\ trend = NoTrend

\* The backend reports the status with one more separator in it.
InsertSeparator ==
    /\ pc = "format_status"
    /\ res = <<>>
    /\ arg.seps < MaxSeps
    /\ \E k \in 0..Len(arg.status), c \in Separators :
          arg' = [status |-> InsertAt(arg.status, k, c), seps |-> arg.seps + 1]
    /\ UNCHANGED <<page, inp, session, backend, pc, loc, trace, crashed, rerun, rnd,
                   prev, res, trend>>

\* status_html = format_status(row['Status'])
ApplyFormatStatus ==
    /\ pc = "format_status"
    /\ res = <<>>
    /\ res' = <<format_status(arg.status)>>
    /\ UNCHANGED <<page, inp, session, backend, pc, loc, trace, crashed, rerun, rnd,
                   prev, arg, trend>>

NextStatus == InsertSeparator \/ ApplyFormatStatus

SpecStatus == InitStatus /\ [][NextStatus]_vars

(***************************************************************************)
(* The Customers filter on its own: every filter text of up to MaxFilterLen *)
(* characters of FilterAlphabet, every type of the dropdown.               *)
(***************************************************************************)

FilterAlphabet == {"j", "J", "o", "a", "n", "."}

\* The characters the user types in "Filter by Name".
MaxFilterLen == 2

InitFilter ==
    /\ page = Pages[3]
    /\ inp = DefaultInp
    /\ session = SessionInit
    /\ backend = BackendInit
    /\ pc = "filter"
    /\ loc = LocInit
    /\ trace = <<>>
    /\ crashed = FALSE
    /\ rerun = FALSE
    /\ rnd = FALSE
    /\ prev = NoPrev
    /\ \E t \in {"All"} \cup CustomerTypes(CustomerList) :
          arg = [customers |-> CustomerList, filter_name |-> <<>>, filter_type |-> t]
    /\ res = <<>>
    /\ trend = NoTrend

\* The user types one more character.
TypeFilterChar ==
    /\ pc = "filter"
    /\ res = <<>>
    /\ Len(arg.filter_name) < MaxFilterLen
    /\ \E c \in FilterAlphabet :
          arg' = [arg EXCEPT !.filter_name = Append(arg.filter_name, c)]
    /\ UNCHANGED <<page, inp, session, backend, pc, loc, trace, crashed, rerun, rnd,
                   prev, res, trend>>

\* Lines 281-285 on the fetched list.
ApplyFilter ==
    /\ pc = "filter"
    /\ res = <<>>
    /\ res' = <<FilterCustomers(arg.customers, arg.filter_name, arg.filter_type)>>
    /\ UNCHANGED <<page, inp, session, backend, pc, loc, trace, crashed, rerun, rnd,
                   prev, arg, trend>>

NextFilter == TypeFilterChar \/ ApplyFilter

SpecFilter == InitFilter /\ [][NextFilter]_vars

(***************************************************************************)
(* The synthetic series on their own: every base value near and beyond the  *)
(* bounds of its series, or absent from kpi_data.                          *)
(***************************************************************************)

\* The values of a key of kpi_data: absent, or around the bounds of the series.
BaseChoices(k) ==
    LET lo == TrendSeries[k].lo
        hi == TrendSeries[k].hi
    IN  {<<>>} \cup {<<b>> : b \in {lo - NoiseMax - 1, lo + 1, hi - 1, hi + NoiseMax + 1}}

TrendKpiBodies ==
    {[empty |-> FALSE, avg_efficiency |-> e, avg_customer_rating |-> r,
      on_time_percentage |-> o] :
        e \in BaseChoices(1), r \in BaseChoices(2), o \in BaseChoices(3)}

InitTrend ==
    /\ page = Pages[5]
    /\ inp = DefaultInp
    /\ session = SessionInit
    /\ backend = BackendInit
    /\ pc = "analytics_trend"
    /\ \E kpi \in TrendKpiBodies :
          loc = [LocInit EXCEPT !.kpi_data = Some(kpi),
                                !.analytics_data = Some(ChartBodies[3]),
                                !.customer_insights = Some(ChartBodies[3])]
    /\ trace = <<>>
    /\ crashed = FALSE
    /\ rerun = FALSE
    /\ rnd = FALSE
    /\ prev = NoPrev
    /\ arg = <<>>
    /\ res = <<>>
    /\ trend = NoTrend

NextTrend == TrendPoint \/ AnalyticsCharts

SpecTrend == InitTrend /\ [][NextTrend]_vars

(***************************************************************************)
(* What the claims read from a pass                                        *)
(***************************************************************************)

IsRequest(e, method) == e.kind = "request" /\ e.method = method
IsFetchError(e) == e.kind = "error" /\ e.text = "Error fetching data from"
IsCallError(e) ==
    e.kind = "error" /\ e.text \in {"Error fetching data from",
                                    "Error updating data at",
                                    "Error creating data at"}
HasNote(kind, text) ==
    \E i \in 1..Len(trace) : trace[i].kind = kind /\ trace[i].text = text
Requested(method, path) ==
    \E i \in 1..Len(trace) : IsRequest(trace[i], method) /\ trace[i].endpoint.path = path
RequestedFiltered ==
    \E i \in 1..Len(trace) :
        /\ IsRequest(trace[i], "GET")
        /\ trace[i].endpoint.path = "parcels"
        /\ trace[i].params.customer_id # <<>>
Count(P(_)) == Cardinality({i \in 1..Len(trace) : P(trace[i])})
FailedGet(e) == IsRequest(e, "GET") /\ ~e.ok

\* The local variable holds what the resource answered: its body, or None.
Returned(value, r) ==
    /\ value.none = ~backend[r].ok
    /\ backend[r].ok => value.v = backend[r].body

(***************************************************************************)
(* C1: every fetch_data call returns the parsed JSON body unchanged and     *)
(* emits no error notification when the GET answers 2xx; it returns None    *)
(* and emits exactly one error notification, naming the requested endpoint, *)
(* when the response is not 2xx or the request fails.                      *)
(***************************************************************************)
C1_FetchContract ==
    /\ \A i \in 1..Len(trace) :
          IsRequest(trace[i], "GET") =>
             IF trace[i].ok
             THEN i = Len(trace) \/ ~IsFetchError(trace[i + 1])
             ELSE /\ i < Len(trace)
                  /\ IsFetchError(trace[i + 1])
                  /\ trace[i + 1].endpoint = trace[i].endpoint
                  /\ i + 1 = Len(trace) \/ ~IsFetchError(trace[i + 2])
    /\ Count(IsFetchError) = Count(FailedGet)
    /\ Requested("GET", "dashboard/summary") =>
          Returned(loc.dashboard_data, "dashboard/summary")
    /\ Requested("GET", "customers") => Returned(loc.customers, "customers")
    /\ Requested("GET", "customers/{id}") =>
          Returned(loc.customer_details, "customers/{id}")
    /\ Requested("GET", "parcels") =>
          IF RequestedFiltered THEN Returned(loc.parcels, "parcels?customer_id")
                               ELSE Returned(loc.parcels, "parcels")
    /\ Requested("GET", "parcels/{id}") => Returned(loc.parcel_detail, "parcels/{id}")
    /\ Requested("GET", "shipments") => Returned(loc.shipments, "shipments")
    /\ Requested("GET", "analytics/kpi") => Returned(loc.kpi_data, "analytics/kpi")
    /\ Requested("GET", "analytics") => Returned(loc.analytics_data, "analytics")
    /\ Requested("GET", "dashboard/customer-insights") =>
          Returned(loc.customer_insights, "dashboard/customer-insights")

\* A pass in which one GET timed out and a later one answered 2xx with a body.
C1_Witness ==
    \E i, j \in 1..Len(trace) :
        /\ i < j
        /\ FailedGet(trace[i])
        /\ trace[i + 1].detail = "timeout"
        /\ IsRequest(trace[j], "GET") /\ trace[j].ok
        /\ TruthyList(loc.customers)

(***************************************************************************)
(* C2: in every view, whatever fetches return None, the pass runs to its    *)
(* end without an unhandled exception; the section is skipped or replaced   *)
(* by a placeholder.  (The Shipments view reads selected_customer after a   *)
(* GET customers that returned None.)                                      *)
(***************************************************************************)
C2_NullRendersNothing ==
    (\E i \in 1..Len(trace) : FailedGet(trace[i])) => ~crashed

(***************************************************************************)
(* C3 as claimed: a status that is delivered, intransit, processing or     *)
(* delayed once its case is folded and its separators (space, hyphen,      *)
(* underscore) are dropped gets the styling of that class around its       *)
(* original text; every other status is returned unchanged.                *)
(***************************************************************************)
RECURSIVE DropSeparators(_)
DropSeparators(s) ==
    IF s = <<>> THEN <<>>
    ELSE IF Head(s) \in Separators THEN DropSeparators(Tail(s))
         ELSE <<Head(s)>> \o DropSeparators(Tail(s))

ClassOfWord(w) ==
    CASE w = Delivered -> "status-delivered"
      [] w = InTransit -> "status-intransit"
      [] w = Processing -> "status-processing"
      [] w = Delayed -> "status-delayed"
      [] OTHER -> ""

Styled(cls, status) == <<"<span class=" \o cls \o ">">> \o status \o <<"</span>">>

C3_SeparatorInsensitive ==
    res # <<>> =>
       LET cls == ClassOfWord(DropSeparators(Lower(arg.status)))
       IN  IF cls # "" THEN res[1] = Styled(cls, arg.status)
                       ELSE res[1] = arg.status

(***************************************************************************)
(* C3 as amended: the styling is that of the word the status spells when   *)
(* its blanks are skipped and its letters are read in either case, the     *)
(* words being delivered, intransit, in-transit, processing and delayed;   *)
(* the blank is the only separator skipped, and a hyphen is accepted only   *)
(* where in-transit has it.  The original text is kept inside the styling; *)
(* every other status is returned unchanged.                               *)
(***************************************************************************)
RECURSIVE Spells(_, _)
Spells(s, w) ==
    IF s = <<>> THEN w = <<>>
    ELSE IF Head(s) = " " THEN Spells(Tail(s), w)
    ELSE /\ w # <<>>
         /\ Head(s) = Head(w) \/ Head(s) = UpperChar(Head(w))
         /\ Spells(Tail(s), Tail(w))

ClassSpelled(s) ==
    IF Spells(s, Delivered) THEN "status-delivered"
    ELSE IF Spells(s, InTransit) \/ Spells(s, InHTransit) THEN "status-intransit"
    ELSE IF Spells(s, Processing) THEN "status-processing"
    ELSE IF Spells(s, Delayed) THEN "status-delayed"
    ELSE ""

C3_BlankInsensitive ==
    res # <<>> =>
       LET cls == ClassSpelled(arg.status)
       IN  IF cls # "" THEN res[1] = Styled(cls, arg.status)
                       ELSE res[1] = arg.status

\* "IN -TRANSIT" has been styled as in transit, its text kept.
C3_Witness ==
    /\ res # <<>>
    /\ arg.status = <<"I","N"," ","-","T","R","A","N","S","I","T">>
    /\ res[1] = Styled("status-intransit", arg.status)

(***************************************************************************)
(* C4: submitting the update form of shipment i with status s issues       *)
(* exactly one PUT to shipments/{i}/status with body {"Status": s}, and    *)
(* whenever that PUT succeeds the confirmation is shown and the view is    *)
(* reloaded.                                                                *)
(***************************************************************************)
IsPut(e) == IsRequest(e, "PUT")
IsPost(e) == IsRequest(e, "POST")

\* The pass reached the update form that was submitted.
FormSubmitted ==
    /\ page = "Shipments"
    /\ pc = "done"
    /\ loc.map_data # <<>>
    /\ SubmittedIndex(loc.shipments.v, inp.update_form) # 0

C4_SubmitPutsAndReloads ==
    FormSubmitted =>
       /\ Count(IsPut) = 1
       /\ \A i \in 1..Len(trace) :
             IsPut(trace[i]) =>
                /\ trace[i].endpoint =
                      Endpoint("shipments/{id}/status", IntToStr(inp.update_form[1]))
                /\ trace[i].body.Status = new_status_options[inp.new_status + 1]
                /\ trace[i].ok => HasNote("success", "Updated status to") /\ rerun

(***************************************************************************)
(* C5: update_data and create_data return None and emit exactly one error   *)
(* notification naming the endpoint when the request fails, and the caller  *)
(* then shows no confirmation and triggers no reload; when the call         *)
(* succeeds, the parsed JSON is returned and the caller shows the           *)
(* confirmation, followed by a reload for the shipment status update.       *)
(***************************************************************************)
WriteResource(e) ==
    IF e.method = "PUT" THEN "PUT shipments/{id}/status" ELSE "POST customers"

IsWriteError(e) ==
    e.kind = "error" /\ e.text \in {"Error updating data at", "Error creating data at"}

Confirmed ==
    \/ HasNote("success", "Updated status to")
    \/ HasNote("success", "Customer added successfully!")

C5_WriteContract ==
    pc = "done" =>
       \A i \in 1..Len(trace) :
          (IsPut(trace[i]) \/ IsPost(trace[i])) =>
             /\ Returned(loc.result, WriteResource(trace[i]))
             /\ IF trace[i].ok
                THEN /\ Confirmed
                     /\ IsPut(trace[i]) => rerun
                ELSE /\ i < Len(trace)
                     /\ IsWriteError(trace[i + 1])
                     /\ trace[i + 1].endpoint = trace[i].endpoint
                     /\ Count(IsWriteError) = 1
                     /\ ~Confirmed
                     /\ ~rerun

(***************************************************************************)
(* C6: the Customers list displays exactly the customers whose Name        *)
(* contains the filter text as a plain substring, compared                 *)
(* case-insensitively (all of them when the text is empty), and whose Type  *)
(* equals the selected type (all types for "All").                         *)
(***************************************************************************)
PlainFilter(customers, f, t) ==
    LET keep(c) == /\ f = <<>> \/ Contains(Lower(c.Name), Lower(f))
                   /\ t = "All" \/ c.Type = t
    IN  SelectSeq(customers, keep)

C6_PlainSubstring ==
    res # <<>> => res[1] = PlainFilter(arg.customers, arg.filter_name, arg.filter_type)

(***************************************************************************)
(* C7: on the Shipments map every row whose CurrentLocation is a city of    *)
(* the table is plotted at that city's coordinates, every other row at the  *)
(* coordinates of some entry of the table; no error is raised, no           *)
(* coordinate is absent or the null coordinate, and the Location shown is   *)
(* the reported one.                                                        *)
(***************************************************************************)
C7_MapPlacement ==
    (pc \in {"shipments_list", "done"} /\ page = "Shipments" /\ TruthyList(loc.shipments)) =>
       /\ ~crashed
       /\ Len(loc.map_data) = Len(loc.shipments.v)
       /\ \A i \in 1..Len(loc.map_data) :
             LET row == loc.shipments.v[i]
                 m == loc.map_data[i]
             IN  /\ m.Location = row.CurrentLocation
                 /\ m.ShipmentID = row.ShipmentID
                 /\ <<m.lat, m.lon>> # <<0, 0>>
                 /\ \E c \in 1..Len(locations) :
                       m.lat = locations[c].lat /\ m.lon = locations[c].lon
                 /\ \A c \in 1..Len(locations) :
                       locations[c].city = row.CurrentLocation =>
                          m.lat = locations[c].lat /\ m.lon = locations[c].lon

\* The shipment in Nowhereville is plotted at Seattle, the one in Chicago at Chicago.
C7_Witness ==
    /\ pc = "shipments_list"
    /\ \E i, j \in 1..Len(loc.map_data) :
          /\ loc.map_data[i].Location = "Nowhereville"
          /\ loc.map_data[i].lat = 476062 /\ loc.map_data[i].lon = -1223321
          /\ loc.map_data[j].Location = "Chicago"
          /\ loc.map_data[j].lat = 418781 /\ loc.map_data[j].lon = -876298

(***************************************************************************)
(* C8: every point of the three synthetic series is inside the bounds of    *)
(* its series, efficiency in [50, 100], customer rating in [1, 5] (here in  *)
(* tenths), on-time percentage in [70, 100]; each series has exactly 30     *)
(* points, one per date.                                                    *)
(***************************************************************************)
ClaimedBounds == << <<50, 100>>, <<10, 50>>, <<70, 100>> >>

C8_TrendBounds ==
    /\ trend.last # <<>> =>
          LET p == trend.last[1]
          IN  ClaimedBounds[p.series][1] <= p.value /\ p.value <= ClaimedBounds[p.series][2]
    /\ \A k \in 1..Len(trend.lens) : trend.lens[k] = 30 /\ trend.lens[k] = Len(dates)
    /\ trend.n < 30
    /\ pc \in {"analytics_charts", "done"} => Len(trend.lens) = 3
    /\ Cardinality({dates[k] : k \in 1..Len(dates)}) = 30
    /\ ~crashed

\* The three series are complete, from an efficiency below its range and a
\* rating above its range: every point of both was clamped.
C8_Witness ==
    /\ pc = "done"
    /\ trend.lens = <<30, 30, 30>>
    /\ loc.kpi_data.v.avg_efficiency = <<46>>
    /\ loc.kpi_data.v.avg_customer_rating = <<54>>
    /\ trend.last[1].value = 70
    /\ ~crashed

(***************************************************************************)
(* C9: there is no retry.  Each call issues one request; a request that     *)
(* failed is not issued again in the pass, and its error notification,      *)
(* naming its endpoint, is the next thing the pass emits, before the render *)
(* continues.                                                               *)
(***************************************************************************)
IsAnyRequest(e) == e.kind = "request"
FailedRequest(e) == e.kind = "request" /\ ~e.ok

SameRequest(d, e) ==
    /\ d.method = e.method
    /\ d.endpoint = e.endpoint
    /\ d.params = e.params
    /\ d.body = e.body

C9_NoRetry ==
    /\ \A i \in 1..Len(trace) :
          FailedRequest(trace[i]) =>
             /\ i < Len(trace)
             /\ IsCallError(trace[i + 1])
             /\ trace[i + 1].endpoint = trace[i].endpoint
             /\ \A j \in (i + 1)..Len(trace) :
                   IsAnyRequest(trace[j]) => ~SameRequest(trace[i], trace[j])
    /\ Count(IsCallError) = Count(FailedRequest)

\* A pass went on after a failed request: two requests failed, another succeeded.
C9_Witness ==
    /\ pc = "done"
    /\ Count(FailedRequest) = 2
    /\ Count(IsAnyRequest) = 3

(***************************************************************************)
(* C10: a pass that repeats another, with the same page, the same widget    *)
(* inputs, the same session state and the same answers of the backend, and  *)
(* that draws no random value, issues the same requests and renders the     *)
(* same output; a pass in which no button or form is submitted issues only  *)
(* GET requests and leaves the session state as it was.  (A key that is not *)
(* yet in the session state reads as None, the value the script gives it.)  *)
(***************************************************************************)
SessionValue(s) == [k \in DOMAIN s |-> IF s[k].set THEN s[k].v ELSE None.v]

C10_Idempotent ==
    /\ (/\ pc = "done"
        /\ prev.set
        /\ ~rnd
        /\ ~prev.rnd
        /\ prev.page = page
        /\ prev.inp = inp
        /\ SessionValue(prev.session0) = SessionValue(loc.session0)) =>
          /\ trace = prev.trace
          /\ crashed = prev.crashed
          /\ rerun = prev.rerun
          /\ SessionValue(session) = SessionValue(prev.session)
    /\ (pc \notin {"idle", "top"} /\ ~Submitted(inp)) =>
          /\ \A i \in 1..Len(trace) : IsAnyRequest(trace[i]) => trace[i].method = "GET"
          /\ SessionValue(session) = SessionValue(loc.session0)
          /\ ~rerun

\* The Customers list was rendered twice with the filter "jo", the same both
\* times: the request, the card of John Doe, the form; nothing was submitted.
C10_Witness ==
    /\ pc = "done"
    /\ prev.set
    /\ page = "Customers"
    /\ inp.filter_name = <<"j","o">>
    /\ ~Submitted(inp)
    /\ Len(prev.trace) >= 3
    /\ trace = prev.trace

(***************************************************************************)
(* C11: in every pass the navigation selection is one of Dashboard,         *)
(* Shipments, Customers, Parcels, Analytics; the Personnel branch and the   *)
(* Network Visualization branch are never entered, and no request for       *)
(* personnel or network is issued.                                          *)
(***************************************************************************)
C11_HiddenViewsDead ==
    /\ page \in {"Dashboard", "Shipments", "Customers", "Parcels", "Analytics"}
    /\ pc \notin {"personnel", "network"}
    /\ \A i \in 1..Len(trace) :
          IsAnyRequest(trace[i]) =>
             trace[i].endpoint.path \notin {"personnel", "network"}

\* The last option of the radio was selected and its branch, Analytics, was
\* entered and ran to its end.
C11_Witness ==
    /\ page = "Analytics"
    /\ pc = "done"
    /\ Requested("GET", "dashboard/customer-insights")

(***************************************************************************)
(* C12: on the Shipments view the GET shipments request carries limit=100,  *)
(* carries status exactly when the selected status is not "All", with the   *)
(* selected status as its value, and carries customer_id exactly when the   *)
(* selected customer is not "All", with the id of that customer; the list   *)
(* returned is displayed whole, on the map and as cards, without any        *)
(* filtering by the client.                                                 *)
(***************************************************************************)
IsShipmentsGet(e) == IsRequest(e, "GET") /\ e.endpoint.path = "shipments"
IsShipmentCard(e) == e.kind = "section" /\ e.name = "shipment_card"

\* The index in customers of the customer picked in the dropdown, 0 for "All".
PickedCustomer ==
    IF inp.sel_customer <= Len(loc.customers.v) THEN inp.sel_customer ELSE 0

C12_BackendFilters ==
    page = "Shipments" =>
       /\ \A i \in 1..Len(trace) :
             IsShipmentsGet(trace[i]) =>
                /\ trace[i].params.limit = <<100>>
                /\ trace[i].params.status =
                      (IF status_options[inp.sel_status + 1] = "All" THEN <<>>
                       ELSE <<status_options[inp.sel_status + 1]>>)
                /\ trace[i].params.customer_id =
                      (IF PickedCustomer = 0 THEN <<>>
                       ELSE <<loc.customers.v[PickedCustomer].CustomerID>>)
       /\ (pc \in {"shipments_list", "done"} /\ TruthyList(loc.shipments)) =>
             /\ Len(loc.map_data) = Len(loc.shipments.v)
             /\ \A k \in 1..Len(loc.map_data) :
                   loc.map_data[k].ShipmentID = loc.shipments.v[k].ShipmentID
       /\ (pc = "done" /\ TruthyList(loc.shipments) /\ ~Submitted(inp)) =>
             LET cards == SelectSeq(trace, IsShipmentCard)
             IN  /\ Len(cards) = Len(loc.shipments.v)
                 /\ \A k \in 1..Len(cards) :
                       cards[k].rows[1].id = loc.shipments.v[k].ShipmentID

\* Delivered and Jane (ID: 2) were selected: the request carried status and
\* customer_id = 2, and the two shipments returned, one of them of customer 1
\* and neither of them delivered, were both displayed.
C12_Witness ==
    /\ page = "Shipments"
    /\ pc = "done"
    /\ ~Submitted(inp)
    /\ \E i \in 1..Len(trace) :
          /\ IsShipmentsGet(trace[i])
          /\ trace[i].params = Params(<<100>>, <<"Delivered">>, <<2>>)
    /\ Len(SelectSeq(trace, IsShipmentCard)) = 2

(***************************************************************************)
(* C13: on the Analytics view the three GET requests are issued one after   *)
(* the other in the order analytics/kpi, analytics (limit 100),             *)
(* dashboard/customer-insights, each after the one before it has returned   *)
(* or failed, and all three even when an earlier one fails.  The KPI cards, *)
(* the trends and the insight charts are rendered only when all three       *)
(* results are present; otherwise nothing of them is rendered, only the     *)
(* error 'Failed to load analytics data'.                                   *)
(***************************************************************************)
AnalyticsRequests ==
    << [path |-> "analytics/kpi", params |-> NoParams],
       [path |-> "analytics", params |-> Limit100],
       [path |-> "dashboard/customer-insights", params |-> NoParams] >>

IsSection(e) == e.kind = "section"
IsTrendLine(e) == e.kind = "section" /\ e.name = "trend_line"
IsAnalyticsFailure(e) == e.kind = "error" /\ e.text = "Failed to load analytics data"

AllPresent ==
    ~loc.kpi_data.none /\ ~loc.analytics_data.none /\ ~loc.customer_insights.none

C13_AnalyticsSequence ==
    page = "Analytics" =>
       LET reqs == SelectSeq(trace, IsAnyRequest)
       IN  /\ Len(reqs) <= 3
           /\ \A k \in 1..Len(reqs) :
                 /\ reqs[k].method = "GET"
                 /\ reqs[k].endpoint = Endpoint(AnalyticsRequests[k].path, NoId)
                 /\ reqs[k].params = AnalyticsRequests[k].params
           /\ \A i \in 1..Len(trace) :
                 (IsAnyRequest(trace[i]) /\ \E j \in (i + 1)..Len(trace) :
                                              IsAnyRequest(trace[j])) =>
                    IF trace[i].ok THEN IsAnyRequest(trace[i + 1])
                    ELSE IsFetchError(trace[i + 1]) /\ IsAnyRequest(trace[i + 2])
           /\ pc \in {"analytics_trend", "analytics_charts", "done"} => Len(reqs) = 3
           /\ pc = "done" =>
                 /\ ~AllPresent => Count(IsSection) = 0
                 /\ IF Count(IsSection) > 0
                    THEN /\ AllPresent
                         /\ trace[Len(trace)].kind = "section"
                         /\ Count(IsTrendLine) = 3
                         /\ Count(IsAnalyticsFailure) = 0
                    ELSE /\ Count(IsAnalyticsFailure) = 1
                         /\ IsAnalyticsFailure(trace[Len(trace)])

\* GET analytics/kpi failed and the two other requests were issued all the same
\* and answered; the pass ended with the failure message.
C13_Witness ==
    /\ page = "Analytics"
    /\ pc = "done"
    /\ loc.kpi_data.none
    /\ TruthyDict(loc.analytics_data)
    /\ TruthyDict(loc.customer_insights)
    /\ Count(IsAnyRequest) = 3
    /\ IsAnalyticsFailure(trace[Len(trace)])

(***************************************************************************)
(* C14: the session state is the two flags customer_filter and              *)
(* status_filter, both None when the session starts.  status_filter stays   *)
(* None; customer_filter is None or the id of a customer, and it changes    *)
(* only in the step of a clicked 'View Details' button whose GET             *)
(* customers/{id} succeeded, to the id of that customer.  A click whose     *)
(* fetch fails leaves the session state as it is and triggers no reload.    *)
(***************************************************************************)
CustomerIds == {<<CustomerList[i].CustomerID>> : i \in 1..Len(CustomerList)}

SessionFlags ==
    /\ DOMAIN session = {"customer_filter", "status_filter"}
    /\ SessionValue(session).status_filter = None.v
    /\ SessionValue(session).customer_filter \in {None.v} \cup CustomerIds

DetailsStep ==
    /\ pc = "customers_details"
    /\ inp.clicked = <<loc.row[1].CustomerID>>

SessionStep ==
    /\ SessionValue(session') # SessionValue(session) =>
          /\ DetailsStep
          /\ backend'["customers/{id}"].ok
          /\ session'.customer_filter = Held(inp.clicked)
          /\ session'.status_filter = session.status_filter
    /\ (pc = "customers_details" /\ ~backend'["customers/{id}"].ok) =>
          /\ session' = session
          /\ ~rerun'
    /\ (rerun' /\ ~rerun /\ page = "Customers") =>
          /\ DetailsStep
          /\ backend'["customers/{id}"].ok

C14_SessionFlags == []SessionFlags /\ [][SessionStep]_vars

\* customer_filter holds 1 from an earlier click; the button of customer 2 was
\* then clicked, its detail fetch failed, and the flag is still 1, no reload.
C14_Witness ==
    /\ pc = "done"
    /\ page = "Customers"
    /\ inp.clicked = <<2>>
    /\ loc.customer_details.none
    /\ Requested("GET", "customers/{id}")
    /\ session.customer_filter = Held(<<1>>)
    /\ ~rerun

(***************************************************************************)
(* C15: the submitted Add Customer form issues a POST to customers only     *)
(* when Name and Email are both non-empty, with a body of exactly the six   *)
(* fields CustomerID, Name, Email, Phone, Address, Type as entered; when    *)
(* Name or Email is empty no request is issued and the warning to fill in   *)
(* all required fields is shown; the success message is shown only when     *)
(* the POST succeeded.  No POST is issued without the form being submitted. *)
(***************************************************************************)
IsRequiredWarning(e) ==
    e.kind = "warning" /\ e.text = "Please fill in all required fields"
IsCustomerAdded(e) ==
    e.kind = "success" /\ e.text = "Customer added successfully!"

C15_AddCustomer ==
    /\ \A i \in 1..Len(trace) :
          IsPost(trace[i]) =>
             /\ page = "Customers"
             /\ inp.add_submit
             /\ inp.new_customer.Name # ""
             /\ inp.new_customer.Email # ""
             /\ trace[i].endpoint = Endpoint("customers", NoId)
             /\ trace[i].body = inp.new_customer
             /\ DOMAIN trace[i].body =
                   {"CustomerID", "Name", "Email", "Phone", "Address", "Type"}
    /\ Count(IsCustomerAdded) > 0 =>
          \E i \in 1..Len(trace) : IsPost(trace[i]) /\ trace[i].ok
    /\ (pc = "done" /\ page = "Customers" /\ inp.add_submit) =>
          IF inp.new_customer.Name # "" /\ inp.new_customer.Email # ""
          THEN Count(IsPost) = 1 /\ Count(IsRequiredWarning) = 0
          ELSE Count(IsPost) = 0 /\ Count(IsRequiredWarning) = 1
                                 /\ Count(IsCustomerAdded) = 0

\* The form was submitted with a name and no email: the warning, no request.
C15_Witness ==
    /\ pc = "done"
    /\ page = "Customers"
    /\ inp.add_submit
    /\ inp.new_customer.Name = "Ann"
    /\ inp.new_customer.Email = ""
    /\ Count(IsRequiredWarning) = 1
    /\ Count(IsPost) = 0

(***************************************************************************)
(* The script under its scheduling: Streamlit runs the script from top to   *)
(* bottom without interruption, every HTTP call returns or times out, and   *)
(* st.rerun() starts the next pass at once.  The user is not obliged to     *)
(* act.  The user of this specification leaves the customer dropdowns on    *)
(* "All", so the filtered fetch of line 357 is not among its steps.         *)
(***************************************************************************)
ScriptStep ==
    \/ Rerun
    \/ Prologue
    \/ DashboardPage
    \/ CustomersList
    \/ CustomersViewDetails
    \/ CustomersAddForm
    \/ ParcelsFetch
    \/ ParcelsCustomerFilter
    \/ ParcelsTable
    \/ ParcelsDetail
    \/ ParcelsShipments
    \/ ShipmentsFilters
    \/ ShipmentsFetch
    \/ ShipmentsMap
    \/ ShipmentsListing
    \/ AnalyticsFetchKpi
    \/ AnalyticsFetchData
    \/ AnalyticsFetchInsights
    \/ TrendPoint
    \/ AnalyticsCharts

\* The widget values of this user: each page as it opens, a parcel selected,
\* each button or form submitted.
LiveInputs(p) ==
    CASE p = "Customers" ->
           {DefaultInp, [DefaultInp EXCEPT !.clicked = <<1>>],
            [DefaultInp EXCEPT !.add_submit = TRUE,
                               !.new_customer = NewCustomer("Ann", "a@b.c")]}
      [] p = "Parcels" -> {DefaultInp, [DefaultInp EXCEPT !.sel_parcel = 1]}
      [] p = "Shipments" -> {DefaultInp, [DefaultInp EXCEPT !.update_form = <<1>>]}
      [] OTHER -> {DefaultInp}

InteractLive ==
    /\ pc = "idle"
    /\ \E p \in 1..Len(Pages) :
          /\ page' = Pages[p]
          /\ inp' \in LiveInputs(Pages[p])
    /\ backend' = BackendInit
    /\ prev' = NoPrev
    /\ StartPass

NextLive == InteractLive \/ Wait \/ Replay \/ ScriptStep

SpecLive == Init /\ [][NextLive]_vars /\ WF_vars(ScriptStep)

(***************************************************************************)
(* C16: every pass terminates.  A pass issues at most 1 request on          *)
(* Dashboard, 3 on Analytics, 2 on Customers, 3 on Shipments, 5 on Parcels, *)
(* and then ends; a reload is triggered only by a 'View Details' whose      *)
(* fetch succeeded or by a status update whose PUT succeeded, so the pass   *)
(* a reload starts, in which no button is pressed, ends without another     *)
(* reload.                                                                  *)
(***************************************************************************)
MaxCalls ==
    CASE page = "Dashboard" -> 1
      [] page = "Analytics" -> 3
      [] page = "Customers" -> 2
      [] page = "Shipments" -> 3
      [] page = "Parcels" -> 5

IsDetailsGet(e) == IsRequest(e, "GET") /\ e.endpoint.path = "customers/{id}"

CallsBounded ==
    /\ Count(IsAnyRequest) <= MaxCalls
    /\ (pc = "done" /\ page \in {"Dashboard", "Analytics"}) =>
          Count(IsAnyRequest) = MaxCalls

ReloadCause ==
    rerun =>
       \/ /\ page = "Customers"
          /\ inp.clicked # <<>>
          /\ \E i \in 1..Len(trace) : IsDetailsGet(trace[i]) /\ trace[i].ok
       \/ /\ page = "Shipments"
          /\ inp.update_form # <<>>
          /\ \E i \in 1..Len(trace) : IsPut(trace[i]) /\ trace[i].ok

IsParcelShipment(e) == e.kind = "section" /\ e.name = "parcel_shipment"
IsParcelDetails(e) == e.kind = "section" /\ e.name = "parcel_details"
IsNoShipments(e) == e.kind = "info" /\ e.text = "No shipments found for this parcel"

\* The pass got to the parcel picked for details, whose fetch succeeded.
ParcelDetailFetched ==
    /\ page = "Parcels"
    /\ pc = "done"
    /\ Requested("GET", "parcels/{id}")
    /\ backend["parcels/{id}"].ok

\* The shipments of the picked parcel among those returned.
Matching ==
    LET mine(sh) == IntToStr(sh.ParcelID) = loc.selected_parcel_id
    IN  SelectSeq(loc.shipments.v, mine)

C17_AssociatedShipments ==
    ParcelDetailFetched =>
       /\ Count(IsParcelDetails) = 1
       /\ \E i \in 1..Len(trace) :
             IsShipmentsGet(trace[i]) /\ trace[i].params = Limit100
       /\ IF loc.shipments.none
          THEN Count(IsParcelShipment) = 0 /\ Count(IsNoShipments) = 0
          ELSE LET cards == SelectSeq(trace, IsParcelShipment)
               IN  /\ Len(cards) = Len(Matching)
                   /\ \A k \in 1..Len(cards) :
                         /\ cards[k].rows[1].id = Matching[k].ShipmentID
                         /\ cards[k].rows[1].status_html =
                               format_status(Matching[k].Status)
                   /\ Count(IsNoShipments) = (IF Matching = <<>> THEN 1 ELSE 0)

(***************************************************************************)
(* C18: on the Customers, Parcels and Shipments views, once the list of the *)
(* view has been fetched, 'Failed to load ... data' is displayed exactly    *)
(* when the list is None or empty.  A fetch that succeeded with an empty    *)
(* list shows that message without a fetch_data error; a fetch that failed  *)
(* shows two error messages, the one of fetch_data and 'Failed to load'.    *)
(***************************************************************************)
ListViews ==
    << [page |-> "Customers", path |-> "customers",
        text |-> "Failed to load customer data"],
       [page |-> "Parcels", path |-> "parcels",
        text |-> "Failed to load parcel data"],
       [page |-> "Shipments", path |-> "shipments",
        text |-> "Failed to load shipment data"] >>

\* The list the view holds when it decides what to display.
ViewList ==
    CASE page = "Customers" -> loc.customers
      [] page = "Parcels" -> loc.parcels
      [] page = "Shipments" -> loc.shipments

\* The positions in the trace of the requests for the list at path.
ListRequests(path) ==
    {i \in 1..Len(trace) : IsRequest(trace[i], "GET") /\ trace[i].endpoint.path = path}

LastOf(S) == CHOOSE i \in S : \A j \in S : j <= i

C18_FailedToLoad ==
    \A w \in 1..Len(ListViews) :
       (/\ page = ListViews[w].page
        /\ pc = "done"
        /\ ~crashed
        /\ ListRequests(ListViews[w].path) # {}) =>
          LET last == LastOf(ListRequests(ListViews[w].path))
              failed(e) == e.kind = "error" /\ e.text = ListViews[w].text
          IN  /\ Count(failed) = (IF ViewList.none \/ ViewList.v = <<>> THEN 1 ELSE 0)
              /\ ViewList.none = ~trace[last].ok
              /\ IF trace[last].ok
                 THEN ~IsFetchError(trace[last + 1])
                 ELSE /\ IsFetchError(trace[last + 1])
                      /\ trace[last + 1].endpoint = trace[last].endpoint
                      /\ \E j \in (last + 2)..Len(trace) : failed(trace[j])

\* GET customers answered 2xx with an empty list: 'Failed to load customer
\* data' and no fetch_data error.
C18_Witness ==
    /\ page = "Customers"
    /\ pc = "done"
    /\ ~loc.customers.none
    /\ loc.customers.v = <<>>
    /\ HasNote("error", "Failed to load customer data")
    /\ Count(IsFetchError) = 0

(***************************************************************************)
(* The customer dropdown label on its own: every name made of up to         *)
(* MaxNameParts of the parts below, every id of CustomerIdChoices.          *)
(***************************************************************************)

\* The pieces a customer name is made of.
NameParts == { <<"A","n","n">>, <<" ">>, <<"7">>, <<")">>, IdOpen }

\* The pieces of a customer name.
MaxNameParts == 3

\* The CustomerID values of the backend.
CustomerIdChoices == {-3, 0, 9, 12}

InitLabel ==
    /\ page = Pages[4]
    /\ inp = [DefaultInp EXCEPT !.sel_customer = 1]
    /\ session = SessionInit
    /\ backend = BackendInit
    /\ pc = "label"
    /\ loc = LocInit
    /\ trace = <<>>
    /\ crashed = FALSE
    /\ rerun = FALSE
    /\ rnd = FALSE
    /\ prev = NoPrev
    /\ \E id \in CustomerIdChoices :
          arg = [customer |-> [CustomerID |-> id, Name |-> <<>>, Type |-> "Business"],
                 parts |-> 0]
    /\ res = <<>>
    /\ trend = NoTrend

\* The backend holds a customer whose name has one more part.
AppendNamePart ==
    /\ pc = "label"
    /\ res = <<>>
    /\ arg.parts < MaxNameParts
    /\ \E part \in NameParts :
          arg' = [customer |-> [arg.customer EXCEPT !.Name = @ \o part],
                  parts |-> arg.parts + 1]
    /\ UNCHANGED <<page, inp, session, backend, pc, loc, trace, crashed, rerun, rnd,
                   prev, res, trend>>

\* Lines 352-356: the customer is selected in the dropdown and its id is parsed
\* from the label.
ApplyLabel ==
    /\ pc = "label"
    /\ res = <<>>
    /\ LET options == customer_options(<<arg.customer>>)
           selected_customer == SelectBox(options, inp.sel_customer)
       IN  res' = <<ParseCustomerId(selected_customer)>>
    /\ UNCHANGED <<page, inp, session, backend, pc, loc, trace, crashed, rerun, rnd,
                   prev, arg, trend>>

NextLabel == AppendNamePart \/ ApplyLabel

SpecLabel == InitLabel /\ [][NextLabel]_vars

(***************************************************************************)
(* C19: for every customer, with any Name and any integer CustomerID,       *)
(* parsing the label "<Name> (ID: <CustomerID>)" selected in the dropdown   *)
(* (the text after the first "ID: ", trailing ")" stripped, converted to    *)
(* an integer) raises no error and yields the CustomerID of that customer.  *)
(***************************************************************************)
C19_LabelRoundTrip ==
    res # <<>> => res[1] = <<arg.customer.CustomerID>>

\* The requests of the pass, in the order they were issued.
PassRequests == SelectSeq(trace, IsAnyRequest)

IsParcelsTable(e) == e.kind = "section" /\ e.name = "parcels_table"

IsCustomerSelect(e) == e.kind = "section" /\ e.name = "customer_select"

IsParcelsFailure(e) == e.kind = "error" /\ e.text = "Failed to load parcel data"

\* The Parcels pass is past the customer filter.
ParcelsFiltered ==
    /\ page = "Parcels"
    /\ pc \in {"parcels_list", "parcels_detail", "parcels_shipments", "done"}
    /\ ~crashed

\* The Parcels pass is past the table.
ParcelsListed ==
    /\ page = "Parcels"
    /\ pc \in {"parcels_detail", "parcels_shipments", "done"}
    /\ ~crashed

(***************************************************************************)
(* C20: on the Parcels view GET parcels (limit 100) is issued first and GET *)
(* customers second.  When a customer other than "All" is selected a        *)
(* second GET parcels with the id of that customer follows and its result   *)
(* replaces the first one: the table shows the rows of the second result,   *)
(* and when the second fetch fails 'Failed to load parcel data' is shown    *)
(* and no table.  When GET customers returns null no dropdown is shown and  *)
(* the list of the first fetch is what is rendered.                         *)
(***************************************************************************)
C20_ParcelsFetchOrder ==
    /\ (page = "Parcels" /\ Len(PassRequests) >= 1) =>
          /\ IsRequest(PassRequests[1], "GET")
          /\ PassRequests[1].endpoint = Endpoint("parcels", NoId)
          /\ PassRequests[1].params = Limit100
    /\ (page = "Parcels" /\ Len(PassRequests) >= 2) =>
          /\ IsRequest(PassRequests[2], "GET")
          /\ PassRequests[2].endpoint = Endpoint("customers", NoId)
    /\ ParcelsFiltered =>
          /\ Len(PassRequests) >= 2
          /\ Returned(loc.customers, "customers")
          /\ Count(IsCustomerSelect) = (IF loc.customers.none \/ loc.customers.v = <<>>
                                        THEN 0 ELSE 1)
          /\ IF PickedCustomer # 0
             THEN /\ Len(PassRequests) >= 3
                  /\ IsRequest(PassRequests[3], "GET")
                  /\ PassRequests[3].endpoint = Endpoint("parcels", NoId)
                  /\ PassRequests[3].params =
                        Params(<<100>>, <<>>,
                               <<loc.customers.v[PickedCustomer].CustomerID>>)
                  /\ Returned(loc.parcels, "parcels?customer_id")
             ELSE /\ ~RequestedFiltered
                  /\ Returned(loc.parcels, "parcels")
    /\ ParcelsListed =>
          IF loc.parcels.none \/ loc.parcels.v = <<>>
          THEN Count(IsParcelsFailure) = 1 /\ Count(IsParcelsTable) = 0
          ELSE /\ Count(IsParcelsFailure) = 0
               /\ Count(IsParcelsTable) = 1
               /\ \A i \in 1..Len(trace) :
                     IsParcelsTable(trace[i]) => trace[i].rows = loc.parcels.v

\* The first fetch returned a list, the fetch for the selected customer failed:
\* the failure message is shown and no table.
C20_Witness ==
    /\ ParcelsListed
    /\ backend["parcels"].ok
    /\ backend["parcels"].body # <<>>
    /\ PickedCustomer # 0
    /\ Len(PassRequests) = 3
    /\ ~PassRequests[3].ok
    /\ Count(IsParcelsFailure) = 1
    /\ Count(IsParcelsTable) = 0

====
